---- MODULE Spec2Model ----
(***************************************************************************)
(* A model of the learning loop of learner/qlearn.py (class DeepQLearner): *)
(* the replay buffer, the deferred reward write, the action-repeat         *)
(* protocol, the exploration-rate schedule, the burn-in gate and the       *)
(* target computation.                                                     *)
(*                                                                         *)
(* One call of step() is a run of pc from "idle" back to "idle" through    *)
(* the blocks of the method, in source order.  The caller is single        *)
(* threaded, so the blocks of one call never interleave with another call. *)
(*                                                                         *)
(* Modelling decisions:                                                    *)
(*  - learner/config.py and learner/qnet.py are not among the sources.     *)
(*    The configuration is the record `config`, drawn in Init from a       *)
(*    bounded set of configurations and never changed.  The approximator   *)
(*    is a parameter version `net` (the number of updates so far) and an   *)
(*    arbitrary fixed function compute_q of (version, input).              *)
(*  - A raw frame is opaque to the loop (it is resized, reduced and        *)
(*    scaled, never compared), so the frame delivered on tick i is the     *)
(*    label i; a normalized frame is the pair <<"norm", label>>.           *)
(*  - Floats are exact rationals <<numerator, denominator>>; rounding is   *)
(*    not modelled.  Rewards are integers.  A target is kept multiplied    *)
(*    by the denominator of DISCOUNT.                                      *)
(*  - random.random() draws from the three values of Draws, which lie in   *)
(*    [0, 1) and fall below, on and above the rates the model reaches.     *)
(*  - log_status() prints and changes no state: it is left out.            *)
(*  - An uncaught exception ends the run: pc = "failed", the exception's   *)
(*    name ends `events`, and no further step is taken (pong_player.py     *)
(*    catches nothing).                                                    *)
(*  - Variables marked "history" are not program state; they record what   *)
(*    a call did so that the properties can speak about it.                *)
(***************************************************************************)
EXTENDS Integers, Sequences, FiniteSets, TLC

VARIABLES
    config,                   \* learner/config.py: the static hyperparameters
    save,                     \* self.save
    actions,                  \* self.actions
    net,                      \* self.net: version of the parameters
    exploration_rate,         \* self.exploration_rate, a rational
    iteration,                \* self.iteration
    previous_frames,          \* self.previous_frames, most recent first
    repeating_action_rewards, \* self.repeating_action_rewards
    transitions,              \* self.transitions, oldest first
    pc,                       \* position inside step()
    arg,                      \* the arguments of the running call
    returned,                 \* history: what the last completed call returned
    lastDecision,             \* history: the action chosen on the last decision tick
    created,                  \* history: number of transitions ever created
    events,                   \* history: what the running/last call did, in order
    minibatch,                \* history: the targets computed by the last training step
    startLen,                 \* history: len(self.transitions) when the call began
    explored,                 \* history: how the last decision tick chose its action
    lastWrite,                \* history: the last reward write of observe_reward
    heard                     \* history: the reward arguments of the repeating ticks
                              \*          since the last decision tick returned

vars == <<config, save, actions, net, exploration_rate, iteration, previous_frames,
          repeating_action_rewards, transitions, pc, arg, returned,
          lastDecision, created, events, minibatch, startLen, explored, lastWrite,
          heard>>

(***************************************************************************)
(* Bounds of the model.                                                    *)
(***************************************************************************)
MaxIter == 4        \* step() is called for iterations 0..MaxIter
MaxRepeat == 2      \* ACTION_REPEAT ranges over 1..MaxRepeat
MaxCapacity == 2    \* REPLAY_MEMORY_SIZE ranges over 1..MaxCapacity
MaxStart == 2       \* REPLAY_START_SIZE ranges over 1..MaxStart
MaxBatch == 2       \* BATCH_SIZE ranges over 1..MaxBatch

(***************************************************************************)
(* Rationals <<n, d>> with d > 0.                                          *)
(***************************************************************************)
Rat(n, d) == IF d < 0 THEN <<0 - n, 0 - d>> ELSE <<n, d>>
RatLt(a, b) == a[1] * b[2] < b[1] * a[2]
RatEq(a, b) == a[1] * b[2] = b[1] * a[2]
RatLe(a, b) == RatLt(a, b) \/ RatEq(a, b)
\* Python's max(a, b): the first argument unless the second is larger.
RatMax(a, b) == IF RatLt(a, b) THEN b ELSE a

Min(a, b) == IF a < b THEN a ELSE b
Max(a, b) == IF a > b THEN a ELSE b

(***************************************************************************)
(* The configuration (learner/config.py), read through the names the       *)
(* source uses.                                                            *)
(***************************************************************************)
ACTION_REPEAT == config.ACTION_REPEAT
REPLAY_MEMORY_SIZE == config.REPLAY_MEMORY_SIZE
REPLAY_START_SIZE == config.REPLAY_START_SIZE
BATCH_SIZE == config.BATCH_SIZE
STATE_FRAMES == config.STATE_FRAMES
FINAL_EXPLORATION_FRAME == config.FINAL_EXPLORATION_FRAME
EXPLORATION_START_RATE == config.EXPLORATION_START_RATE
EXPLORATION_END_RATE == config.EXPLORATION_END_RATE
SAVING_FREQUENCY == config.SAVING_FREQUENCY
DISCOUNT == config.DISCOUNT

\* The configuration every family below varies.
BaseConfig ==
    [ACTION_REPEAT |-> 2, REPLAY_MEMORY_SIZE |-> 2, REPLAY_START_SIZE |-> 1,
     BATCH_SIZE |-> 1, STATE_FRAMES |-> 2, FINAL_EXPLORATION_FRAME |-> 100,
     EXPLORATION_START_RATE |-> <<1, 1>>, EXPLORATION_END_RATE |-> <<1, 10>>,
     SAVING_FREQUENCY |-> 4, DISCOUNT |-> <<9, 10>>]

\* Cadence, capacity, burn-in size and batch size vary.
BufferConfigs ==
    {[BaseConfig EXCEPT !.ACTION_REPEAT = r, !.REPLAY_MEMORY_SIZE = c,
                        !.REPLAY_START_SIZE = s, !.BATCH_SIZE = b] :
        r \in 1..MaxRepeat, c \in 1..MaxCapacity, s \in 1..MaxStart, b \in 1..MaxBatch}

\* The exploration schedule varies.
RateConfigs ==
    {[BaseConfig EXCEPT !.ACTION_REPEAT = r,
                        !.FINAL_EXPLORATION_FRAME = f,
                        !.EXPLORATION_START_RATE = st, !.EXPLORATION_END_RATE = en] :
        r \in 1..MaxRepeat, f \in {2, MaxIter - 1, MaxIter},
        st \in {<<1, 2>>, <<1, 1>>}, en \in {<<0, 1>>, <<1, 2>>}}

\* The stack depth varies.
FrameConfigs ==
    {[BaseConfig EXCEPT !.ACTION_REPEAT = r, !.STATE_FRAMES = k] :
        r \in 1..MaxRepeat, k \in 1..3}

\* The saving cadence varies.
SaveConfigs ==
    {[BaseConfig EXCEPT !.ACTION_REPEAT = r, !.SAVING_FREQUENCY = q] :
        r \in 1..MaxRepeat, q \in {2, 3}}

\* A cadence with more than one repeating tick between decisions.
CadenceConfigs == {[BaseConfig EXCEPT !.ACTION_REPEAT = MaxRepeat + 1]}

Configs ==
    BufferConfigs \cup RateConfigs \cup FrameConfigs \cup SaveConfigs \cup CadenceConfigs

\* The end-to-end scenario: action-repeat 4, burn-in size 2, capacity 10,
\* 20 ticks, reward +1 on ticks 5 and 15 and 0 otherwise, never terminal.
Scenario ==
    [config |-> [BaseConfig EXCEPT !.ACTION_REPEAT = 4, !.REPLAY_START_SIZE = 2,
                                   !.REPLAY_MEMORY_SIZE = 10, !.BATCH_SIZE = 2],
     ticks |-> 20,
     rewardTicks |-> {5, 15}]
InScenario == config = Scenario.config

\* pong_player.py: ACTIONS = [pgc.K_DOWN, pgc.K_UP, pgc.K_UNKNOWN], the
\* pygame key codes 274, 273 and 0.
PONG_ACTIONS == <<274, 273, 0>>

Rewards == {0 - 2, 1}

\* What the environment adapter passes on the tick numbered it.
LastTick == IF InScenario THEN Scenario.ticks - 1 ELSE MaxIter
RewardArgs(it) ==
    IF InScenario THEN {IF it \in Scenario.rewardTicks THEN 1 ELSE 0} ELSE Rewards
TerminalArgs == IF InScenario THEN {FALSE} ELSE BOOLEAN

NoArg == [frame |-> 0 - 1, reward |-> 0, terminal |-> FALSE]

\* The values random.random() is drawn from: 0, 1/2 and 99/100 of [0, 1).
Draws == {<<0, 1>>, <<1, 2>>, <<99, 100>>}

NoChoice == [draw |-> <<0, 1>>, burning |-> FALSE, rate |-> <<0, 1>>,
             explore |-> FALSE, input |-> <<>>, version |-> 0 - 1]

(***************************************************************************)
(* Helpers of the learner.                                                 *)
(***************************************************************************)
\* list.index(x): the 0-based position of the first element equal to x.
Index(list, x) == (CHOOSE i \in 1..Len(list) :
                      list[i] = x /\ \A j \in 1..(i - 1) : list[j] # x) - 1

\* Mutant: a plain list, without maxlen.
DequeAppend_Unbounded(q, x, n) == Append(q, x)

\* Mutant: a full buffer is emptied before the append.
DequeAppend_Restart(q, x, n) ==
    IF n = 0 THEN <<>>
    ELSE IF Len(q) < n THEN Append(q, x)
    ELSE <<x>>

\* deque(maxlen=n).append(x)
DequeAppend(q, x, n) ==
    IF n = 0 THEN <<>>
    ELSE IF Len(q) < n THEN Append(q, x)
    ELSE Append(SubSeq(q, 2, Len(q)), x)

\* Mutant: the new element goes to the right end.
DequeAppendLeft_Right(q, x, n) ==
    IF n = 0 THEN <<>>
    ELSE IF Len(q) < n THEN Append(q, x)
    ELSE Append(SubSeq(q, 2, Len(q)), x)

\* deque(maxlen=n).appendleft(x)
DequeAppendLeft(q, x, n) ==
    IF n = 0 THEN <<>>
    ELSE IF Len(q) < n THEN <<x>> \o q
    ELSE <<x>> \o SubSeq(q, 1, Len(q) - 1)

\* Mutant: the reward is stored as it is.
Clip_None(reward) == reward

\* np.clip(reward, -1, 1)
Clip(reward) == Max(0 - 1, Min(reward, 1))

normalize_frame(frame) == <<"norm", frame>>

\* preprocess(frame): the stacked state, most recent first.
preprocess(frame) ==
    IF Len(transitions) = 0 \/ Len(previous_frames) < STATE_FRAMES - 1
    THEN [i \in 1..STATE_FRAMES |-> normalize_frame(frame)]
    ELSE <<normalize_frame(frame)>>
         \o [i \in 1..Len(previous_frames) |-> normalize_frame(previous_frames[i])]

\* Mutant: the gate is off by one.
is_burning_in_OffByOne == Len(transitions) <= REPLAY_START_SIZE

is_burning_in == Len(transitions) < REPLAY_START_SIZE

\* QNet.compute_q(input): the value vector, one entry per action.  The
\* network is opaque; this is an arbitrary function of the parameter
\* version and the input that tells inputs, versions and actions apart.
compute_q(version, input) ==
    [a \in 1..Len(actions) |-> (3 * input[1][2] + 5 * version + 2 * a) % 7]

SeqMax(s) == CHOOSE m \in {s[i] : i \in 1..Len(s)} : \A i \in 1..Len(s) : s[i] <= m

\* np.argmax: the 0-based position of the first maximum.
ArgMax(s) == Index(s, SeqMax(s))

best_action(frame) == actions[ArgMax(compute_q(net, frame)) + 1]

\* Mutant: the terminal flag is not looked at.
Bootstraps_IgnoringTerminal(trans) == trans.time < Len(transitions) - 1

\* compute_target_reward(trans): does it bootstrap, and from which input.
Bootstraps(trans) == ~trans.terminal /\ trans.time < Len(transitions) - 1
NextInput(trans) == transitions[trans.time + 2].input
compute_target_reward(trans) ==
    IF Bootstraps(trans)
    THEN trans.reward * DISCOUNT[2]
         + DISCOUNT[1] * SeqMax(compute_q(net, NextInput(trans)))
    ELSE trans.reward * DISCOUNT[2]

(***************************************************************************)
(* Construction: DeepQLearner.__init__.                                    *)
(***************************************************************************)
\* Mutant: the count of calls starts at zero.
FirstIteration_Zero == (0 - 1) + 1

\* self.iteration = -1: the first call of step() is iteration 0.
FirstIteration == 0 - 1

Constructed ==
    /\ save \in IF config \in SaveConfigs THEN BOOLEAN ELSE {TRUE}
    /\ actions = PONG_ACTIONS
    /\ net = 0
    /\ exploration_rate = config.EXPLORATION_START_RATE
    /\ iteration = FirstIteration
    /\ previous_frames = <<>>
    /\ repeating_action_rewards = 0
    /\ transitions = <<>>
    /\ pc = "idle"
    /\ arg = NoArg
    /\ returned = <<>>
    /\ lastDecision = 0 - 1
    /\ created = 0
    /\ events = <<>>
    /\ minibatch = {}
    /\ startLen = 0
    /\ explored = NoChoice
    /\ lastWrite = [seq |-> 0 - 1, value |-> 0]
    /\ heard = <<>>

Init == config \in Configs /\ Constructed
InitScenario == config = Scenario.config /\ Constructed

(***************************************************************************)
(* step(frame, reward, terminal), lines 155-171: count the call, branch on *)
(* the cadence and, on a decision tick, save the network if necessary      *)
(* before updating.                                                        *)
(***************************************************************************)
\* Mutant: the action is held for one tick too many.
IsDecisionTick_OneTooMany(it) == it % (ACTION_REPEAT + 1) = 0

IsDecisionTick(it) == it % ACTION_REPEAT = 0
\* Mutant: self.save is not looked at.
SavesAt_Always(it) == it % SAVING_FREQUENCY = 0

SavesAt(it) == save /\ it % SAVING_FREQUENCY = 0

StepCall ==
    /\ pc = "idle"
    /\ iteration < LastTick
    /\ \E reward \in RewardArgs(iteration + 1), terminal \in TerminalArgs :
          arg' = [frame |-> iteration + 1, reward |-> reward, terminal |-> terminal]
    /\ iteration' = iteration + 1
    /\ pc' = IF IsDecisionTick(iteration + 1) THEN "observe" ELSE "repeat"
    /\ events' = IF IsDecisionTick(iteration + 1) /\ SavesAt(iteration + 1)
                 THEN <<"save">> ELSE <<>>
    /\ minibatch' = {}
    /\ startLen' = Len(transitions)
    /\ heard' = IF IsDecisionTick(iteration + 1) THEN heard
                ELSE Append(heard, arg'.reward)
    /\ UNCHANGED <<config, save, actions, net, exploration_rate, previous_frames,
                   repeating_action_rewards, transitions, returned,
                   lastDecision, created, explored, lastWrite>>

(***************************************************************************)
(* Lines 164-167: a tick that repeats the previous action.                 *)
(* self.transitions[-1] raises IndexError on an empty buffer.              *)
(***************************************************************************)
\* Mutant: the repeating tick records its reward in the buffer.
RepeatAction_WritesReward ==
    /\ pc = "repeat"
    /\ repeating_action_rewards' = repeating_action_rewards + arg.reward
    /\ previous_frames' = DequeAppendLeft(previous_frames, arg.frame, STATE_FRAMES - 1)
    /\ transitions' = IF Len(transitions) = 0 THEN transitions
                      ELSE [transitions EXCEPT
                               ![Len(transitions)] = ("reward" :> arg.reward) @@ @]
    /\ IF Len(transitions) = 0
       THEN /\ pc' = "failed"
            /\ events' = Append(events, "IndexError")
            /\ returned' = returned
       ELSE /\ pc' = "idle"
            /\ events' = events
            /\ returned' = <<transitions[Len(transitions)].action>>
    /\ arg' = NoArg
    /\ UNCHANGED <<config, save, actions, net, exploration_rate, iteration,
                   lastDecision, created, minibatch,
                   startLen, explored, lastWrite, heard>>

RepeatAction ==
    /\ pc = "repeat"
    /\ repeating_action_rewards' = repeating_action_rewards + arg.reward
    /\ previous_frames' = DequeAppendLeft(previous_frames, arg.frame, STATE_FRAMES - 1)
    /\ IF Len(transitions) = 0
       THEN /\ pc' = "failed"
            /\ events' = Append(events, "IndexError")
            /\ returned' = returned
       ELSE /\ pc' = "idle"
            /\ events' = events
            /\ returned' = <<transitions[Len(transitions)].action>>
    /\ arg' = NoArg
    /\ UNCHANGED <<config, save, actions, net, exploration_rate, iteration,
                   transitions, lastDecision, created, minibatch,
                   startLen, explored, lastWrite, heard>>

(***************************************************************************)
(* Line 174 and observe_reward (93-101): the accumulated reward, clipped,  *)
(* is written to the last transition of the buffer.                        *)
(***************************************************************************)
WithReward(trans, reward) == ("reward" :> Clip(reward)) @@ trans

\* Mutant: the reward goes to the oldest transition of the buffer.
observe_reward_Oldest(reward) ==
    IF Len(transitions) = 0
    THEN transitions
    ELSE [transitions EXCEPT ![1] = WithReward(@, reward)]

\* Mutant: a reward of zero is taken for "nothing to record".
observe_reward_SkipZero(reward) ==
    IF Len(transitions) = 0 \/ reward = 0
    THEN transitions
    ELSE [transitions EXCEPT ![Len(transitions)] = WithReward(@, reward)]

observe_reward(reward) ==
    IF Len(transitions) = 0
    THEN transitions
    ELSE [transitions EXCEPT ![Len(transitions)] = WithReward(@, reward)]

ObserveReward ==
    /\ pc = "observe"
    /\ transitions' = observe_reward(repeating_action_rewards)
    /\ lastWrite' = IF Len(transitions) = 0 THEN lastWrite
                    ELSE [seq |-> transitions[Len(transitions)].seq,
                          value |-> Clip(repeating_action_rewards)]
    /\ events' = Append(events, "observe")
    /\ pc' = "train"
    /\ UNCHANGED <<config, save, actions, net, exploration_rate, iteration,
                   previous_frames, repeating_action_rewards, arg, returned,
                   lastDecision, created, minibatch, startLen, explored, heard>>

(***************************************************************************)
(* Lines 176-183: if not burning in, update the network from a sampled     *)
(* minibatch.  random.sample raises ValueError when the sample is larger   *)
(* than the buffer; trans['reward'] raises KeyError when the key is        *)
(* absent.                                                                 *)
(***************************************************************************)
HasReward(trans) == "reward" \in DOMAIN trans

\* Mutant: the sample is one entry short.
Samples_OneShort ==
    {S \in SUBSET (1..Len(transitions)) : Cardinality(S) = BATCH_SIZE - 1}

\* random.sample(self.transitions, BATCH_SIZE): positions, without duplicates.
Samples == {S \in SUBSET (1..Len(transitions)) : Cardinality(S) = BATCH_SIZE}

Target(p) ==
    [pos |-> p,
     seq |-> transitions[p].seq,
     target |-> compute_target_reward(transitions[p]),
     inferred |-> IF Bootstraps(transitions[p])
                  THEN <<NextInput(transitions[p])>> ELSE <<>>,
     version |-> net]

Train ==
    /\ pc = "train"
    /\ IF is_burning_in
       THEN /\ pc' = "select"
            /\ UNCHANGED <<net, events, minibatch>>
       ELSE IF BATCH_SIZE > Len(transitions)
       THEN /\ pc' = "failed"
            /\ events' = Append(events, "ValueError")
            /\ UNCHANGED <<net, minibatch>>
       ELSE \E S \in Samples :
               IF \E p \in S : ~HasReward(transitions[p])
               THEN /\ pc' = "failed"
                    /\ events' = Append(events, "KeyError")
                    /\ UNCHANGED <<net, minibatch>>
               ELSE /\ minibatch' = {Target(p) : p \in S}
                    /\ net' = net + 1
                    /\ events' = Append(events, "update")
                    /\ pc' = "select"
    /\ UNCHANGED <<config, save, actions, exploration_rate, iteration,
                   previous_frames, repeating_action_rewards, transitions, arg,
                   returned, lastDecision, created, startLen, explored, lastWrite,
                   heard>>

(***************************************************************************)
(* Lines 185-198: preprocess, select the next action (do_explore,          *)
(* random_action, best_action), remember the transition, store the frame,  *)
(* reset the reward counter and return the action.                         *)
(***************************************************************************)
\* do_explore, lines 110-113: the rate after the call.
Decays == ~is_burning_in /\ RatLt(EXPLORATION_END_RATE, exploration_rate)
DecayDen == FINAL_EXPLORATION_FRAME - ACTION_REPEAT * REPLAY_START_SIZE
DecayedRate ==
    IF Decays
    THEN RatMax(EXPLORATION_END_RATE, Rat(FINAL_EXPLORATION_FRAME - iteration, DecayDen))
    ELSE exploration_rate

\* Mutant: a draw equal to the rate explores too.
do_explore_AtMost(draw) == RatLe(draw, DecayedRate) \/ is_burning_in

\* do_explore, line 114, for the value draw of random.random().
do_explore(draw) == RatLt(draw, DecayedRate) \/ is_burning_in

\* random_action, for the value draw of random.random().
random_action(draw) == actions[((draw[1] * Len(actions)) \div draw[2]) + 1]

\* Mutant: the terminal argument is dropped.
NewTransition_NeverTerminal(pre_frame, action, terminal) ==
    [time |-> Len(transitions),
     input |-> pre_frame,
     action |-> Index(actions, action),
     terminal |-> FALSE,
     seq |-> created]

\* remember_transition: the dictionary appended.  seq is history: the
\* number of transitions created before this one.
NewTransition(pre_frame, action, terminal) ==
    [time |-> Len(transitions),
     input |-> pre_frame,
     action |-> Index(actions, action),
     terminal |-> terminal,
     seq |-> created]

SelectAndRemember ==
    /\ pc = "select"
    /\ IF Decays /\ DecayDen = 0
       THEN /\ pc' = "failed"
            /\ events' = Append(events, "ZeroDivisionError")
            /\ UNCHANGED <<exploration_rate, transitions, previous_frames,
                           repeating_action_rewards, returned, lastDecision,
                           created, explored, arg, heard>>
       ELSE \E draw \in Draws, draw2 \in Draws :
               LET proc_frame == preprocess(arg.frame)
                   explore == do_explore(draw)
                   action == IF explore THEN random_action(draw2)
                             ELSE best_action(proc_frame)
               IN  /\ explore \/ draw2 = <<0, 1>>
                   /\ exploration_rate' = DecayedRate
                   /\ explored' = [draw |-> draw, burning |-> is_burning_in,
                                   rate |-> DecayedRate, explore |-> explore,
                                   input |-> proc_frame, version |-> net]
                   /\ transitions' = DequeAppend(transitions,
                                         NewTransition(proc_frame, action, arg.terminal),
                                         REPLAY_MEMORY_SIZE)
                   /\ created' = created + 1
                   /\ previous_frames' = DequeAppendLeft(previous_frames, arg.frame,
                                                        STATE_FRAMES - 1)
                   /\ repeating_action_rewards' = 0
                   /\ returned' = <<action>>
                   /\ lastDecision' = action
                   /\ events' = events \o <<"select", "append">>
                   /\ arg' = NoArg
                   /\ heard' = <<>>
                   /\ pc' = "idle"
    /\ UNCHANGED <<config, save, actions, net, iteration, minibatch, startLen, lastWrite>>

Next ==
    \/ StepCall
    \/ RepeatAction
    \/ ObserveReward
    \/ Train
    \/ SelectAndRemember

Spec == Init /\ [][Next]_vars
SpecScenario == InitScenario /\ [][Next]_vars

(***************************************************************************)
(* Vocabulary of the properties.                                           *)
(***************************************************************************)
\* The call for the current iteration has returned.
Returned == pc = "idle" /\ iteration >= 0
\* ceil(n / d)
CeilDiv(n, d) == (n + d - 1) \div d
\* What the call did, restricted to the operations in ops.
Did(ops) == SelectSeq(events, LAMBDA e : e \in ops)
ActionSet == {actions[i] : i \in 1..Len(actions)}
Newest == transitions[Len(transitions)]
\* The transitions of the buffer created right after the one numbered seq.
Successors(seq) == {q \in 1..Len(transitions) : transitions[q].seq = seq + 1}

(***************************************************************************)
(* C1.  Action-repeat cadence: with repeat factor R, the calls numbered    *)
(* 0, R, 2R, ... and only they select an action and append a transition;   *)
(* after N returned calls ceil(N / R) transitions have been created.       *)
(***************************************************************************)
C1_Cadence ==
    Returned =>
        /\ created = CeilDiv(iteration + 1, ACTION_REPEAT)
        /\ Newest.seq = created - 1
        /\ IF iteration % ACTION_REPEAT = 0
           THEN Did({"select", "append"}) = <<"select", "append">>
           ELSE Did({"select", "append"}) = <<>>

C1_Witness ==
    /\ Returned
    /\ ACTION_REPEAT = 2
    /\ iteration = 3
    /\ created = 2
    /\ Did({"select", "append"}) = <<>>

(***************************************************************************)
(* C2.  A tick that repeats returns a non-empty collection holding the     *)
(* action the last decision tick returned, and every returned value is a   *)
(* member of the action set.  (Violated: line 167 returns the stored       *)
(* index of the action, not the action.)                                   *)
(***************************************************************************)
C2_RepeatsSameAction ==
    Returned =>
        /\ Len(returned) > 0
        /\ returned[1] = lastDecision
        /\ returned[1] \in ActionSet

(***************************************************************************)
(* C3.  Deferred reward: observe_reward writes the clipped accumulated     *)
(* reward to the transition created on the previous decision tick and      *)
(* changes no other transition; with an empty buffer it changes nothing;   *)
(* the transition a decision tick appends has no reward, and no other      *)
(* step adds, removes or changes a reward.                                 *)
(***************************************************************************)
SameButReward(old, new) ==
    /\ new.time = old.time
    /\ new.input = old.input
    /\ new.action = old.action
    /\ new.terminal = old.terminal
    /\ new.seq = old.seq

C3_ObserveStep ==
    IF Len(transitions) = 0
    THEN transitions' = transitions
    ELSE /\ Len(transitions') = Len(transitions)
         /\ Newest.seq = created - 1
         /\ ~HasReward(Newest)
         /\ HasReward(transitions'[Len(transitions)])
         /\ transitions'[Len(transitions)].reward = Clip(repeating_action_rewards)
         /\ SameButReward(Newest, transitions'[Len(transitions)])
         /\ \A p \in 1..(Len(transitions) - 1) : transitions'[p] = transitions[p]

C3_OtherStep ==
    /\ \A p \in 1..Len(transitions), q \in 1..Len(transitions') :
          transitions'[q].seq = transitions[p].seq => transitions'[q] = transitions[p]
    /\ \A q \in 1..Len(transitions') :
          (\A p \in 1..Len(transitions) : transitions[p].seq # transitions'[q].seq)
              => ~HasReward(transitions'[q])

C3_DeferredReward ==
    [][IF pc = "observe" THEN C3_ObserveStep ELSE C3_OtherStep]_vars

C3_Witness ==
    /\ pc = "train"
    /\ Len(transitions) = 2
    /\ lastWrite.seq = Newest.seq
    /\ Newest.reward = 0 - 1
    /\ transitions[1].reward = 1

(***************************************************************************)
(* C4.  Every sampled transition that is not terminal and not the newest   *)
(* of the buffer gets the target reward + DISCOUNT * max compute_q(input   *)
(* of the transition created on the next decision tick).  (Violated once   *)
(* the buffer has evicted: 'time' is the length at creation, not the       *)
(* position.)                                                              *)
(***************************************************************************)
C4_BootstrapFromSuccessor ==
    pc = "select" => \A e \in minibatch :
        (~transitions[e.pos].terminal /\ e.pos < Len(transitions)) =>
            \E q \in Successors(e.seq) :
                e.target = transitions[e.pos].reward * DISCOUNT[2]
                           + DISCOUNT[1]
                             * SeqMax(compute_q(e.version, transitions[q].input))

(***************************************************************************)
(* C5.  Every sampled transition that is terminal or the newest of the     *)
(* buffer gets exactly its stored reward as target, and compute_q is not   *)
(* called for it.                                                          *)
(***************************************************************************)
C5_NoBootstrapAtBoundary ==
    pc = "select" => \A e \in minibatch :
        (transitions[e.pos].terminal \/ e.pos = Len(transitions)) =>
            /\ e.target = transitions[e.pos].reward * DISCOUNT[2]
            /\ e.inferred = <<>>

C5_Witness ==
    /\ pc = "select"
    /\ created > REPLAY_MEMORY_SIZE
    /\ \E e \in minibatch : e.pos = Len(transitions) /\ ~transitions[e.pos].terminal
    /\ \E e \in minibatch : e.pos < Len(transitions) /\ transitions[e.pos].terminal

(***************************************************************************)
(* C6.  When a batch is sampled every transition of the buffer has its     *)
(* reward; target computation never reads an absent reward.                *)
(***************************************************************************)
C6_RewardPresentWhenSampled ==
    /\ pc = "train" => \A p \in 1..Len(transitions) : HasReward(transitions[p])
    /\ pc = "select" => \A e \in minibatch : HasReward(transitions[e.pos])
    /\ Did({"KeyError"}) = <<>>

C6_Witness ==
    /\ pc = "select"
    /\ Cardinality(minibatch) = 2
    /\ \E e \in minibatch : e.pos = Len(transitions)

(***************************************************************************)
(* C7.  The buffer never holds more than REPLAY_MEMORY_SIZE transitions,   *)
(* and it always holds the most recently created ones, in creation order.  *)
(***************************************************************************)
C7_FifoEviction ==
    /\ Len(transitions) <= REPLAY_MEMORY_SIZE
    /\ Len(transitions) = Min(created, REPLAY_MEMORY_SIZE)
    /\ \A p \in 1..Len(transitions) :
          transitions[p].seq = created - Len(transitions) + p - 1

C7_Witness ==
    /\ Returned
    /\ REPLAY_MEMORY_SIZE = 2
    /\ created = 4
    /\ transitions[1].seq = 2
    /\ transitions[2].seq = 3

(***************************************************************************)
(* C8.  While burning in the rate is the start rate; from one step to the  *)
(* next the rate never increases; once it is the end rate it stays.        *)
(* (Violated: the decay of lines 111-113 ignores the start rate and        *)
(* restarts from 1.)                                                       *)
(***************************************************************************)
C8_RateStep ==
    /\ RatLe(exploration_rate', exploration_rate)
    /\ RatEq(exploration_rate, EXPLORATION_END_RATE)
          => RatEq(exploration_rate', EXPLORATION_END_RATE)

C8_ExplorationMonotone ==
    /\ [](is_burning_in => exploration_rate = EXPLORATION_START_RATE)
    /\ [][C8_RateStep]_vars

(***************************************************************************)
(* C9.  The rate is never changed while burning in; after burn-in it       *)
(* decays from the start rate to the end rate, which it first equals at    *)
(* iteration FINAL_EXPLORATION_FRAME, and it is the end rate from then on. *)
(* (Violated: the line of 111-113 runs from 1 to 0, so it meets a          *)
(* positive end rate before FINAL_EXPLORATION_FRAME.)                      *)
(***************************************************************************)
C9_LinearDecayToEndAtFinal ==
    /\ is_burning_in => exploration_rate = EXPLORATION_START_RATE
    /\ (Returned /\ ~explored.burning /\ IsDecisionTick(iteration)
        /\ RatLt(EXPLORATION_END_RATE, EXPLORATION_START_RATE)) =>
          /\ iteration < FINAL_EXPLORATION_FRAME
                => RatLt(EXPLORATION_END_RATE, exploration_rate)
          /\ iteration >= FINAL_EXPLORATION_FRAME
                => RatEq(exploration_rate, EXPLORATION_END_RATE)

(***************************************************************************)
(* C10.  update runs only on decision ticks that begin with at least       *)
(* REPLAY_START_SIZE transitions in the buffer, and on each of those it    *)
(* runs exactly once, before the action is selected and before the new     *)
(* transition is appended.                                                 *)
(***************************************************************************)
C10_UpdateGate ==
    /\ Did({"update"}) # <<>> =>
          /\ IsDecisionTick(iteration)
          /\ startLen >= REPLAY_START_SIZE
    /\ (pc = "select" /\ startLen >= REPLAY_START_SIZE) =>
          /\ Did({"update", "select", "append"}) = <<"update">>
          /\ Len(transitions) = startLen
          /\ created = CeilDiv(iteration, ACTION_REPEAT)
    /\ (Returned /\ IsDecisionTick(iteration) /\ startLen >= REPLAY_START_SIZE) =>
          Did({"update", "select", "append"}) = <<"update", "select", "append">>
    /\ (Returned /\ (~IsDecisionTick(iteration) \/ startLen < REPLAY_START_SIZE)) =>
          Did({"update"}) = <<>>

C10_Witness ==
    /\ Returned
    /\ REPLAY_START_SIZE = 2
    /\ startLen = 2
    /\ net = 1
    /\ Did({"update", "select", "append"}) = <<"update", "select", "append">>

(***************************************************************************)
(* C11.  End-to-end scenario (SpecScenario): exactly 5 transitions are     *)
(* created by the 20 ticks; the transition created at tick 4 has no reward *)
(* before the observation of tick 8 and reward 1 right after it; update    *)
(* is not called before tick 8.                                            *)
(***************************************************************************)
BeforeObservationOfTick8 ==
    created >= 2 /\ (iteration < 8 \/ (iteration = 8 /\ pc = "observe"))
AfterObservationOfTick8 == iteration = 8 /\ pc = "train"
BeforeUpdateOfTick8 ==
    iteration < 8 \/ (iteration = 8 /\ pc \in {"observe", "train"})

C11_ScenarioCounts ==
    /\ (Returned /\ iteration = Scenario.ticks - 1) => created = 5
    /\ AfterObservationOfTick8 =>
          /\ transitions[2].seq = 1
          /\ HasReward(transitions[2])
          /\ transitions[2].reward = 1
    /\ BeforeUpdateOfTick8 => net = 0 /\ Did({"update"}) = <<>>

C11_Scenario ==
    InScenario =>
        /\ C11_ScenarioCounts
        /\ BeforeObservationOfTick8 => ~HasReward(transitions[2])

C11_Witness ==
    /\ InScenario
    /\ AfterObservationOfTick8
    /\ heard = <<1, 0, 0>>
    /\ transitions[2].reward = 1
    /\ net = 0

\* C11 as stated: the transition created at tick 4 has reward 0 before the
\* observation of tick 8.
C11_ScenarioRewardZeroBefore ==
    InScenario =>
        /\ C11_ScenarioCounts
        /\ BeforeObservationOfTick8 =>
              HasReward(transitions[2]) /\ transitions[2].reward = 0

(***************************************************************************)
(* C12.  A decision tick that begins its selection while burning in takes  *)
(* a random member of the action set and never asks the network; after     *)
(* burn-in it exploits, returning the arg-max action of compute_q on the   *)
(* current stacked state, exactly when its draw is not below the           *)
(* exploration rate.                                                       *)
(***************************************************************************)
ArgMaxAction(version, input) == actions[ArgMax(compute_q(version, input)) + 1]

C12_ExploreOrExploit ==
    (Returned /\ IsDecisionTick(iteration)) =>
        /\ explored.rate = exploration_rate
        /\ explored.version = net
        /\ explored.input = Newest.input
        /\ explored.burning = (startLen < REPLAY_START_SIZE)
        /\ explored.burning => explored.explore
        /\ ~explored.burning =>
              (explored.explore <=> RatLt(explored.draw, exploration_rate))
        /\ explored.explore => returned[1] \in ActionSet
        /\ ~explored.explore =>
              returned[1] = ArgMaxAction(explored.version, explored.input)

C12_Witness ==
    /\ Returned
    /\ IsDecisionTick(iteration)
    /\ ~explored.burning
    /\ ~explored.explore
    /\ explored.draw = <<1, 2>>
    /\ RatEq(exploration_rate, <<1, 2>>)
    /\ returned[1] = ArgMaxAction(net, Newest.input)

(***************************************************************************)
(* C13.  The network is saved only when saving is enabled, only on a       *)
(* decision tick whose iteration is a multiple of SAVING_FREQUENCY, at     *)
(* most once, and before that tick's reward observation, update and        *)
(* action selection; a repeating tick never saves.                         *)
(***************************************************************************)
C13_SaveFirst ==
    /\ Did({"save"}) # <<>> =>
          /\ save
          /\ IsDecisionTick(iteration)
          /\ iteration % SAVING_FREQUENCY = 0
          /\ Did({"save"}) = <<"save">>
          /\ events[1] = "save"
    /\ (pc = "observe" /\ Did({"save"}) # <<>>) =>
          /\ events = <<"save">>
          /\ Len(transitions) = startLen
          /\ Len(transitions) > 0 => ~HasReward(Newest)
    /\ pc = "repeat" => events = <<>>

C13_Witness ==
    /\ Returned
    /\ SAVING_FREQUENCY = 2
    /\ ACTION_REPEAT = 2
    /\ iteration = 2
    /\ events = <<"save", "observe", "update", "select", "append">>

(***************************************************************************)
(* C14.  With BATCH_SIZE <= REPLAY_START_SIZE the buffer holds at least    *)
(* BATCH_SIZE transitions whenever the update is reached, sampling never   *)
(* raises, and the minibatch is BATCH_SIZE distinct positions of the       *)
(* buffer.  With REPLAY_START_SIZE < BATCH_SIZE no update ever happens:    *)
(* a decision tick gets past the training block only while burning in,     *)
(* and the first one that is not burning in raises ValueError with the     *)
(* buffer as it was when the tick began.                                   *)
(***************************************************************************)
C14_SamplingFits ==
    BATCH_SIZE <= REPLAY_START_SIZE =>
       /\ Did({"ValueError"}) = <<>>
       /\ (pc = "train" /\ ~is_burning_in) => Len(transitions) >= BATCH_SIZE
       /\ (pc = "select" /\ Did({"update"}) # <<>>) =>
             /\ Cardinality(minibatch) = BATCH_SIZE
             /\ Cardinality({e.pos : e \in minibatch}) = BATCH_SIZE
             /\ \A e \in minibatch : e.pos \in 1..Len(transitions)

C14_SamplingFails ==
    REPLAY_START_SIZE < BATCH_SIZE =>
       /\ Did({"update"}) = <<>> /\ net = 0
       /\ (pc = "train" /\ ~is_burning_in) => Len(transitions) = REPLAY_START_SIZE
       /\ (pc \in {"select", "idle"} /\ iteration >= 0 /\ IsDecisionTick(iteration)) =>
             startLen < REPLAY_START_SIZE
       /\ Did({"ValueError"}) # <<>> =>
             /\ pc = "failed"
             /\ startLen = REPLAY_START_SIZE
             /\ Len(transitions) = startLen
             /\ created = startLen
             /\ Did({"select", "append"}) = <<>>

C14_BatchSampling == C14_SamplingFits /\ C14_SamplingFails

C14_Witness ==
    /\ REPLAY_START_SIZE = 1
    /\ BATCH_SIZE = 2
    /\ REPLAY_MEMORY_SIZE = 2
    /\ pc = "failed"
    /\ events[Len(events)] = "ValueError"
    /\ Len(transitions) = 1

(***************************************************************************)
(* C15.  The stacked state of a decision tick has STATE_FRAMES slices.     *)
(* On the first tick, or while fewer than STATE_FRAMES - 1 raw frames are  *)
(* retained, every slice is the current frame; otherwise slice 0 is the    *)
(* current frame and slice j is the frame of j ticks earlier, whichever    *)
(* kind of tick that was.                                                  *)
(***************************************************************************)
\* The stack expected on the tick numbered it, whose raw frame is it.
ExpectedStack(it) ==
    IF it = 0 \/ it < STATE_FRAMES - 1
    THEN [j \in 1..STATE_FRAMES |-> normalize_frame(it)]
    ELSE [j \in 1..STATE_FRAMES |-> normalize_frame(it - (j - 1))]

C15_StackedState ==
    /\ pc = "select" =>
          /\ Len(preprocess(arg.frame)) = STATE_FRAMES
          /\ preprocess(arg.frame) = ExpectedStack(iteration)
          /\ (Len(transitions) = 0 \/ Len(previous_frames) < STATE_FRAMES - 1)
                <=> (iteration = 0 \/ iteration < STATE_FRAMES - 1)
          /\ \A j \in 1..Len(previous_frames) : previous_frames[j] # arg.frame
    /\ (Returned /\ IsDecisionTick(iteration)) =>
          /\ explored.input = ExpectedStack(iteration)
          /\ Newest.input = ExpectedStack(iteration)

C15_Witness ==
    /\ Returned
    /\ STATE_FRAMES = 3
    /\ ACTION_REPEAT = 2
    /\ iteration = 4
    /\ Newest.input = <<normalize_frame(4), normalize_frame(3), normalize_frame(2)>>
    /\ transitions[1].input = <<normalize_frame(2), normalize_frame(1), normalize_frame(0)>>

(***************************************************************************)
(* C16.  A tick that repeats the action counts the call, adds the          *)
(* incoming reward to the accumulator and pushes the raw frame to the      *)
(* front of the retained frames, and nothing else: the buffer, the         *)
(* exploration rate and the network stay as they were, and neither update  *)
(* nor save is called.                                                     *)
(***************************************************************************)
\* The retained frames after frame is pushed to the front.
Pushed(frame) ==
    IF STATE_FRAMES = 1 THEN <<>>
    ELSE <<frame>> \o SubSeq(previous_frames, 1, Min(Len(previous_frames), STATE_FRAMES - 2))

\* The call enters the repeating branch.
C16_EnterStep ==
    pc' = "repeat" =>
       /\ iteration' = iteration + 1
       /\ ~IsDecisionTick(iteration')
       /\ events' = <<>>
       /\ UNCHANGED <<transitions, exploration_rate, net, repeating_action_rewards,
                      previous_frames, created>>

\* The repeating branch runs.
C16_RepeatStep ==
    pc = "repeat" =>
       /\ repeating_action_rewards' = repeating_action_rewards + arg.reward
       /\ previous_frames' = Pushed(arg.frame)
       /\ Did({"update", "save"})' = <<>>
       /\ UNCHANGED <<transitions, exploration_rate, net, iteration, created>>

C16_NonDecisionTick == [][C16_EnterStep /\ C16_RepeatStep]_vars

C16_Witness ==
    /\ Returned
    /\ ~IsDecisionTick(iteration)
    /\ STATE_FRAMES = 3
    /\ iteration = 3
    /\ repeating_action_rewards = 1
    /\ previous_frames = <<3, 2>>
    /\ Len(transitions) = 2
    /\ ~HasReward(Newest)

(***************************************************************************)
(* C17.  The reward written to a transition is the sum of the reward       *)
(* arguments of the repeating ticks since its creation, clipped to         *)
(* [-1, 1] after the summation.  The reward argument of a decision tick    *)
(* goes nowhere, the accumulator is zero when a decision tick returns,     *)
(* and every reward in the buffer lies in [-1, 1].                         *)
(***************************************************************************)
RECURSIVE SumSeq(_)
SumSeq(s) == IF s = <<>> THEN 0 ELSE s[1] + SumSeq(Tail(s))

\* The reward arguments of the repeating ticks since the last decision,
\* the one of a call that has entered the repeating branch excluded.
HeardAndAdded == IF pc = "repeat" THEN SubSeq(heard, 1, Len(heard) - 1) ELSE heard

C18_Kept(j) == \E i \in 1..Len(transitions) : transitions[i].seq = transitions'[j].seq

C18_TerminalStep ==
    /\ \A i \in 1..Len(transitions), j \in 1..Len(transitions') :
          transitions[i].seq = transitions'[j].seq =>
             transitions[i].terminal = transitions'[j].terminal
    /\ \A j \in 1..Len(transitions') :
          ~C18_Kept(j) =>
             /\ pc = "select"
             /\ IsDecisionTick(iteration)
             /\ j = Len(transitions')
             /\ transitions'[j].terminal = arg.terminal
             /\ transitions'[j].seq = created
             /\ created > 0 => lastWrite.seq = created - 1
    /\ pc = "repeat" => UNCHANGED transitions

C19_LengthStep ==
    /\ Len(transitions') >= Len(transitions)
    /\ ~is_burning_in => ~is_burning_in'

C19_BurnInState ==
    /\ Len(transitions) = Min(created, REPLAY_MEMORY_SIZE)
    /\ Returned => created = (iteration \div ACTION_REPEAT) + 1
    /\ ~is_burning_in <=>
          (created >= REPLAY_START_SIZE /\ REPLAY_MEMORY_SIZE >= REPLAY_START_SIZE)
    /\ REPLAY_MEMORY_SIZE < REPLAY_START_SIZE =>
          /\ is_burning_in
          /\ net = 0
          /\ Did({"update"}) = <<>>
          /\ exploration_rate = EXPLORATION_START_RATE

C19_BurnInOneWay == []C19_BurnInState /\ [][C19_LengthStep]_vars

C19_Witness ==
    /\ Returned
    /\ REPLAY_MEMORY_SIZE < REPLAY_START_SIZE
    /\ created > REPLAY_START_SIZE
    /\ Len(transitions) = REPLAY_MEMORY_SIZE
    /\ is_burning_in
    /\ net = 0

(***************************************************************************)
(* C20.  step() reads the buffer only at positions it has.  The first      *)
(* call is a decision tick, so the buffer is non-empty whenever the        *)
(* repeating branch reads its last transition and no IndexError is         *)
(* raised; compute_target_reward reads position time + 1 only when that    *)
(* is a position of the current buffer.                                    *)
(***************************************************************************)
\* The 0-based positions of the buffer.
Positions == 0..(Len(transitions) - 1)

C20_InRange ==
    /\ Did({"IndexError"}) = <<>>
    /\ iteration = 0 => pc # "repeat"
    /\ pc = "repeat" => Len(transitions) > 0
    /\ pc = "train" =>
          \A p \in 1..Len(transitions) :
             Bootstraps(transitions[p]) => (transitions[p].time + 1) \in Positions
    /\ pc = "select" =>
          \A e \in minibatch :
             e.inferred # <<>> => (transitions[e.pos].time + 1) \in Positions

C20_Witness ==
    /\ pc = "select"
    /\ ACTION_REPEAT = 2
    /\ iteration = 4
    /\ \E e \in minibatch : e.inferred # <<>> /\ transitions[e.pos].time + 1 = 1
====
